---- MODULE Spec2Model ----
(***************************************************************************)
(* The task list of react-todo-supabase: the TodoList component (the       *)
(* in-memory list `todos`, its `loading` flag and its five asynchronous    *)
(* operations), the TodoForm and TodoItem components that issue them, and  *)
(* the remote table they talk to.                                          *)
(*                                                                         *)
(* Every operation of TodoList is an async function that suspends at its   *)
(* single `await supabase...` and resumes when the response arrives.  A    *)
(* request therefore lives in `reqs` from the moment a handler issues it   *)
(* until its continuation has run; the continuation reads `todos` from the *)
(* closure of the render that issued it (the field `snap`), never from the *)
(* state at the time it resumes.                                           *)
(*                                                                         *)
(* Text is a sequence of characters so that String.prototype.trim and the  *)
(* falsiness of the empty string are computed, not assumed.  A nullable    *)
(* text (string | null) is Null or Some(text).                             *)
(***************************************************************************)
EXTENDS Naturals, Sequences, FiniteSets

VARIABLES
    store,      \* the remote table `todos`: the set of rows of the user
    nextId,     \* the store's next id / created_at (both store-assigned)
    user,       \* useAuth().user is present
    todos,      \* TodoList state: the list
    loading,    \* TodoList state: the loading flag
    form,       \* TodoForm state: title, description, loading
    items,      \* TodoItem state per rendered todo (key = id): loading, isEditing
    reqs,       \* requests in flight, in the order they were issued
    issued,     \* how many requests have been issued so far
    last,       \* the continuation that ran in the step just taken, if one did
    ev          \* the handler that returned early in the step just taken, if one did

vars == <<store, nextId, user, todos, loading, form, items, reqs, issued, last, ev>>

----------------------------------------------------------------------------
(* Bounds *)

MaxTasks == 2       \* rows the store will ever hold an id for
MaxInFlight == 2    \* requests in flight at one time
MaxOps == 3         \* requests issued in one run

----------------------------------------------------------------------------
(* Text and nullable text *)

Space == " "

TitleInputs == {<<>>, <<Space>>, <<"a">>, <<"b">>}
DescInputs == {<<>>, <<"d">>}

Null == <<>>
Some(text) == <<text>>

RECURSIVE TrimStart(_)
TrimStart(s) ==
    IF s = <<>> THEN <<>>
    ELSE IF Head(s) = Space THEN TrimStart(Tail(s)) ELSE s

RECURSIVE TrimEnd(_)
TrimEnd(s) ==
    IF s = <<>> THEN <<>>
    ELSE IF s[Len(s)] = Space THEN TrimEnd(SubSeq(s, 1, Len(s) - 1)) ELSE s

\* String.prototype.trim
Trim(s) == TrimEnd(TrimStart(s))

\* the guard that forgets to trim
IsBlankUntrimmed(title) == title = <<>>

\* `!title.trim()`: the empty string is the only falsy string
IsBlank(title) == Trim(title) = <<>>

\* the payload that keeps the empty string
OrNullKeepsEmpty(description) == Some(description)

\* `description || null`
OrNull(description) == IF description = <<>> THEN Null ELSE Some(description)

----------------------------------------------------------------------------
(* Lists of todos *)

Ids(list) == {list[i].id : i \in DOMAIN list}

Find(list, id) == CHOOSE i \in DOMAIN list : list[i].id = id

RECURSIVE OrderDesc(_)
\* .order('created_at', { ascending: false }) over a set of rows
OrderDesc(rows) ==
    IF rows = {} THEN <<>>
    ELSE LET top == CHOOSE r \in rows : \A q \in rows : q.created_at <= r.created_at
         IN  <<top>> \o OrderDesc(rows \ {top})

----------------------------------------------------------------------------
(* The remote table *)

\* insert([{ user_id, title, description }]).select().single(): the store
\* assigns id and created_at, and `completed` defaults to false
InsertedRow(title, description) ==
    [id |-> nextId, title |-> title, description |-> description,
     completed |-> FALSE, created_at |-> nextId]

\* update({ completed, updated_at }).eq('id', id)
StoreToggle(rows, id, completed) ==
    {IF r.id = id THEN [r EXCEPT !.completed = completed] ELSE r : r \in rows}

\* update({ title, description, updated_at }).eq('id', id)
StoreUpdate(rows, id, title, description) ==
    {IF r.id = id THEN [r EXCEPT !.title = title, !.description = description]
     ELSE r : r \in rows}

\* delete().eq('id', id)
StoreDelete(rows, id) == {r \in rows : r.id # id}

\* rows that earlier sessions of the user left in the table
EarlierRows ==
    {[id |-> 1, title |-> <<"a">>, description |-> Null,
      completed |-> FALSE, created_at |-> 1],
     [id |-> 2, title |-> <<"b">>, description |-> Some(<<"d">>),
      completed |-> TRUE, created_at |-> 2]}

InitialStores == {{r \in EarlierRows : r.id <= n} : n \in 0..Cardinality(EarlierRows)}

----------------------------------------------------------------------------
(* History *)

\* what a request remembers of the continuation that ran just before it
\* was issued
NoSummary ==
    [op |-> "none", id |-> 0, title |-> <<>>, description |-> <<>>,
     completed |-> FALSE, ok |-> FALSE,
     alone |-> FALSE, live |-> FALSE, before |-> <<>>, data |-> <<>>,
     pre |-> {}]

NoEvent ==
    [op |-> "none", id |-> 0, title |-> <<>>, description |-> <<>>,
     completed |-> FALSE, ok |-> FALSE, alone |-> FALSE, over |-> {},
     pre |-> {}, data |-> <<>>, snap |-> <<>>, live |-> FALSE,
     before |-> <<>>, wasLoading |-> FALSE, toasts |-> <<>>, prev |-> NoSummary,
     itemLive |-> FALSE, okOver |-> FALSE, errOver |-> FALSE]

Summary(e) ==
    [op |-> e.op, id |-> e.id, title |-> e.title, description |-> e.description,
     completed |-> e.completed, ok |-> e.ok,
     alone |-> e.alone, live |-> e.live, before |-> e.before, data |-> e.data,
     pre |-> e.pre]

\* request r resumed when `todos` was `before` and `loading` was
\* wasLoading, and raised `toasts`
Event(r, before, toasts) ==
    [op |-> r.op, id |-> r.id, title |-> r.title, description |-> r.description,
     completed |-> r.completed, ok |-> (r.phase = "ok"), alone |-> r.alone,
     over |-> r.over, pre |-> r.pre, data |-> r.data, snap |-> r.snap,
     live |-> r.listLive, before |-> before, wasLoading |-> loading,
     toasts |-> toasts, prev |-> r.prev,
     itemLive |-> r.itemLive, okOver |-> r.okOver, errOver |-> r.errOver]

\* a step in which no continuation runs and no handler returns early
NoReturn == [handler |-> "none", title |-> <<>>]

Quiet == last' = NoEvent /\ ev' = NoReturn

----------------------------------------------------------------------------
(* Requests *)

\* A request in flight.  op, id, title, description, completed are the call
\* and its payload; snap is the `todos` of the closure that issued it; phase
\* is "sent" until the store has answered, then "ok" or "err"; data is the
\* answer (the rows of a select, the row of an insert).  listLive / itemLive
\* tell whether the TodoList / TodoItem instance that issued it is still
\* mounted.  alone, over, pre, prev, okOver and errOver are history: no other
\* request was in flight during this one's life; the toggles that completed
\* successfully while it was in flight; the ids in the store just before
\* the insert; the continuation that ran in the step before the request was
\* issued; whether a successful / a failed continuation of another request
\* ran while it was in flight.
Request(op, id, title, description, completed) ==
    [op |-> op, id |-> id, title |-> title, description |-> description,
     completed |-> completed, snap |-> todos, phase |-> "sent", data |-> <<>>,
     listLive |-> TRUE, itemLive |-> TRUE,
     alone |-> (reqs = <<>>), over |-> {}, pre |-> {}, prev |-> Summary(last),
     okOver |-> FALSE, errOver |-> FALSE]

\* the requests already in flight, once another one joins them
Joined == [i \in DOMAIN reqs |-> [reqs[i] EXCEPT !.alone = FALSE]]

Issue(r) == reqs' = Append(Joined, r) /\ issued' = issued + 1

Without(i) == SubSeq(reqs, 1, i - 1) \o SubSeq(reqs, i + 1, Len(reqs))

CanIssue == Len(reqs) < MaxInFlight /\ issued < MaxOps

----------------------------------------------------------------------------
(* TodoList: what each operation's continuation makes of `todos` *)

\* fetchTodos that clears the list when the read fails
FetchTodosClearsOnError(r, cur) == IF r.phase = "ok" THEN r.data ELSE <<>>

\* fetchTodos: setTodos(data || []) unless error
FetchTodosResult(r, cur) == IF r.phase = "ok" THEN r.data ELSE cur

\* addTodo that appends the new row
AddTodoAppends(r, cur) ==
    IF r.phase = "ok" THEN r.snap \o <<r.data[1]>> ELSE cur

\* an addTodo that prepended to the list of the moment, setTodos(prev => [data, ...prev])
AddTodoPrependsCurrent(r, cur) ==
    IF r.phase = "ok" THEN <<r.data[1]>> \o cur ELSE cur

\* addTodo: setTodos([data, ...todos]) unless error
AddTodoResult(r, cur) ==
    IF r.phase = "ok" THEN <<r.data[1]>> \o r.snap ELSE cur

\* toggleTodo that patches every todo
ToggleTodoPatchesAll(r, cur) ==
    IF r.phase = "ok"
    THEN [i \in DOMAIN r.snap |-> [r.snap[i] EXCEPT !.completed = r.completed]]
    ELSE cur

\* a catch block that put the list captured at the call back in place
ToggleTodoRollsBack(r, cur) ==
    IF r.phase = "ok"
    THEN [i \in DOMAIN r.snap |->
            IF r.snap[i].id = r.id
            THEN [r.snap[i] EXCEPT !.completed = r.completed]
            ELSE r.snap[i]]
    ELSE r.snap

\* toggleTodo: setTodos(todos.map(todo => todo.id === id ? {...todo, completed} : todo))
ToggleTodoResult(r, cur) ==
    IF r.phase = "ok"
    THEN [i \in DOMAIN r.snap |->
            IF r.snap[i].id = r.id
            THEN [r.snap[i] EXCEPT !.completed = r.completed]
            ELSE r.snap[i]]
    ELSE cur

\* deleteTodo without `if (error) throw error`
DeleteTodoIgnoresError(r, cur) == SelectSeq(r.snap, LAMBDA t : t.id # r.id)

\* deleteTodo: setTodos(todos.filter(todo => todo.id !== id)) unless error
DeleteTodoResult(r, cur) ==
    IF r.phase = "ok" THEN SelectSeq(r.snap, LAMBDA t : t.id # r.id) ELSE cur

\* updateTodo: setTodos(todos.map(todo => todo.id === id ? {...todo, title, description} : todo))
\* the local patch takes `description` as given, not `description || null`
UpdateTodoResult(r, cur) ==
    IF r.phase = "ok"
    THEN [i \in DOMAIN r.snap |->
            IF r.snap[i].id = r.id
            THEN [r.snap[i] EXCEPT !.title = r.title,
                                   !.description = Some(r.description)]
            ELSE r.snap[i]]
    ELSE cur

OpResult(r, cur) ==
    CASE r.op = "fetch"  -> FetchTodosResult(r, cur)
      [] r.op = "insert" -> AddTodoResult(r, cur)
      [] r.op = "toggle" -> ToggleTodoResult(r, cur)
      [] r.op = "delete" -> DeleteTodoResult(r, cur)
      [] r.op = "update" -> UpdateTodoResult(r, cur)
      [] r.op = "signOut" -> cur

----------------------------------------------------------------------------
(* TodoList: the toast each continuation raises *)

Normal == "default"
Destructive == "destructive"

\* a success path that also reports an error
ToastsTwice(r) ==
    <<[title |-> "Tarefa atualizada!", variant |-> Normal],
      [title |-> "Erro ao atualizar tarefa", variant |-> Destructive]>>

\* the toast() calls of one continuation, in order
Toasts(r) ==
    CASE r.op = "fetch" ->
            IF r.phase = "ok" THEN <<>>
            ELSE <<[title |-> "Erro ao carregar tarefas", variant |-> Destructive]>>
      [] r.op = "insert" ->
            IF r.phase = "ok"
            THEN <<[title |-> "Tarefa adicionada!", variant |-> Normal]>>
            ELSE <<[title |-> "Erro ao adicionar tarefa", variant |-> Destructive]>>
      [] r.op = "toggle" ->
            IF r.phase = "ok"
            THEN <<[title |-> IF r.completed THEN "Tarefa concluida!" ELSE "Tarefa reaberta",
                    variant |-> Normal]>>
            ELSE <<[title |-> "Erro ao atualizar tarefa", variant |-> Destructive]>>
      [] r.op = "delete" ->
            IF r.phase = "ok"
            THEN <<[title |-> "Tarefa removida", variant |-> Normal]>>
            ELSE <<[title |-> "Erro ao remover tarefa", variant |-> Destructive]>>
      [] r.op = "update" ->
            IF r.phase = "ok"
            THEN <<[title |-> "Tarefa atualizada!", variant |-> Normal]>>
            ELSE <<[title |-> "Erro ao atualizar tarefa", variant |-> Destructive]>>
      [] r.op = "signOut" ->
            IF r.phase = "rejected" THEN <<>>
            ELSE <<[title |-> "Logout realizado", variant |-> Normal]>>

----------------------------------------------------------------------------
(* Component state *)

FreshForm == [title |-> <<>>, description |-> <<>>, loading |-> FALSE]
FreshItem == [loading |-> FALSE, isEditing |-> FALSE]
NoItems == [id \in {} |-> FreshItem]

\* TodoList renders the form and the items once `loading` is false
Rendered == user /\ ~loading

\* the TodoItem instances after `todos` became `list`: React keeps the
\* instance of a key that stays, and mounts a fresh one for a new key
ItemsFor(list) ==
    [id \in Ids(list) |-> IF id \in DOMAIN items THEN items[id] ELSE FreshItem]

ItemOps == {"toggle", "delete", "update"}

Init ==
    /\ store \in InitialStores
    /\ nextId = Cardinality(store) + 1
    /\ user = FALSE
    /\ todos = <<>>
    /\ loading = TRUE
    /\ form = FreshForm
    /\ items = NoItems
    /\ reqs = <<>>
    /\ issued = 0
    /\ last = NoEvent
    /\ ev = NoReturn

----------------------------------------------------------------------------
(* Identity: Index mounts TodoList while a user is present *)

\* a TodoList whose effect did not call fetchTodos at the mount
SignInWithoutLoad ==
    /\ ~user
    /\ CanIssue
    /\ user' = TRUE
    /\ todos' = <<>>
    /\ loading' = TRUE
    /\ form' = FreshForm
    /\ items' = NoItems
    /\ issued' = issued + 1
    /\ Quiet
    /\ UNCHANGED <<store, nextId, reqs>>

\* a user appears: TodoList mounts and its effect calls fetchTodos
SignIn ==
    /\ ~user
    /\ CanIssue
    /\ user' = TRUE
    /\ todos' = <<>>
    /\ loading' = TRUE
    /\ form' = FreshForm
    /\ items' = NoItems
    /\ Issue(Request("fetch", 0, <<>>, <<>>, FALSE))
    /\ Quiet
    /\ UNCHANGED <<store, nextId>>

\* a fetchTodos that began with setLoading(true)
UserChangedShowsSpinner ==
    /\ user
    /\ CanIssue
    /\ loading' = TRUE
    /\ Issue(Request("fetch", 0, <<>>, <<>>, FALSE))
    /\ Quiet
    /\ UNCHANGED <<store, nextId, user, todos, form, items>>

\* the user object changes while TodoList is mounted: the effect runs again
UserChanged ==
    /\ user
    /\ CanIssue
    /\ Issue(Request("fetch", 0, <<>>, <<>>, FALSE))
    /\ Quiet
    /\ UNCHANGED <<store, nextId, user, todos, loading, form, items>>

\* handleSignOut up to its await: signOut() is called; the button is not
\* disabled meanwhile and nothing else changes until the call comes back
HandleSignOut ==
    /\ Rendered
    /\ CanIssue
    /\ Issue(Request("signOut", 0, <<>>, <<>>, FALSE))
    /\ Quiet
    /\ UNCHANGED <<store, nextId, user, todos, loading, form, items>>

\* signOut() comes back without error: the user is gone and Index unmounts
\* TodoList (the requests in flight keep running, their setState calls do
\* nothing any more); handleSignOut resumes in a later step
SignOutGoes(i) ==
    /\ user' = FALSE
    /\ todos' = <<>>
    /\ loading' = TRUE
    /\ form' = FreshForm
    /\ items' = NoItems
    /\ reqs' = [j \in DOMAIN reqs |->
                  [reqs[j] EXCEPT !.listLive = FALSE, !.itemLive = FALSE,
                                  !.phase = IF j = i THEN "ok" ELSE @]]

\* signOut() throws: the promise handleSignOut awaits is rejected
SignOutRejects(i) ==
    /\ reqs' = [reqs EXCEPT ![i].phase = "rejected"]
    /\ UNCHANGED <<user, todos, loading, form, items>>

\* the auth provider answers a signOut() call (it comes back with `error`
\* set, the user staying, in ServeError)
AuthAnswer(i) ==
    /\ reqs[i].op = "signOut"
    /\ reqs[i].phase = "sent"
    /\ SignOutGoes(i) \/ SignOutRejects(i)
    /\ Quiet
    /\ UNCHANGED <<issued, store, nextId>>

----------------------------------------------------------------------------
(* TodoForm *)

\* handleSubmit up to its await, with the fields as typed (typing is not a
\* step of its own: form.title and form.description are the fields of the
\* submission in flight); the submit button is disabled while loading
HandleSubmit(title, description) ==
    /\ Rendered
    /\ ~form.loading
    /\ IF IsBlank(title)
       THEN /\ ev' = [handler |-> "handleSubmit", title |-> title]
            /\ UNCHANGED <<form, reqs, issued>>
       ELSE /\ CanIssue
            /\ form' = [title |-> title, description |-> description,
                        loading |-> TRUE]
            /\ Issue(Request("insert", 0, title, description, FALSE))
            /\ ev' = NoReturn
    /\ last' = NoEvent
    /\ UNCHANGED <<store, nextId, user, todos, loading, items>>

----------------------------------------------------------------------------
(* TodoItem *)

\* a TodoItem whose controls were not disabled while loading
UsableWhileLoading(id) == Rendered /\ id \in DOMAIN items

Usable(id) == Rendered /\ id \in DOMAIN items /\ ~items[id].loading

\* a handleToggle that patched the list before awaiting the store
HandleToggleOptimistic(id) ==
    /\ Usable(id)
    /\ CanIssue
    /\ items' = [items EXCEPT ![id].loading = TRUE]
    /\ todos' = [i \in DOMAIN todos |->
                   IF todos[i].id = id
                   THEN [todos[i] EXCEPT !.completed = ~todos[i].completed]
                   ELSE todos[i]]
    /\ Issue(Request("toggle", id, <<>>, <<>>, ~todos[Find(todos, id)].completed))
    /\ Quiet
    /\ UNCHANGED <<store, nextId, user, loading, form>>

\* handleToggle up to its await
HandleToggle(id) ==
    /\ Usable(id)
    /\ CanIssue
    /\ items' = [items EXCEPT ![id].loading = TRUE]
    /\ Issue(Request("toggle", id, <<>>, <<>>, ~todos[Find(todos, id)].completed))
    /\ Quiet
    /\ UNCHANGED <<store, nextId, user, todos, loading, form>>

\* handleDelete up to its await
HandleDelete(id) ==
    /\ Usable(id)
    /\ ~items[id].isEditing
    /\ CanIssue
    /\ items' = [items EXCEPT ![id].loading = TRUE]
    /\ Issue(Request("delete", id, <<>>, <<>>, FALSE))
    /\ Quiet
    /\ UNCHANGED <<store, nextId, user, todos, loading, form>>

\* the edit button: setIsEditing(true)
StartEdit(id) ==
    /\ Usable(id)
    /\ ~items[id].isEditing
    /\ items' = [items EXCEPT ![id].isEditing = TRUE]
    /\ Quiet
    /\ UNCHANGED <<issued, store, nextId, user, todos, loading, form, reqs>>

\* handleCancelEdit
HandleCancelEdit(id) ==
    /\ Usable(id)
    /\ items[id].isEditing
    /\ items' = [items EXCEPT ![id].isEditing = FALSE]
    /\ Quiet
    /\ UNCHANGED <<issued, store, nextId, user, todos, loading, form, reqs>>

\* handleSaveEdit up to its await, with editTitle and editDescription as typed
HandleSaveEdit(id, editTitle, editDescription) ==
    /\ Usable(id)
    /\ items[id].isEditing
    /\ IF IsBlank(editTitle)
       THEN /\ ev' = [handler |-> "handleSaveEdit", title |-> editTitle]
            /\ UNCHANGED <<items, reqs, issued>>
       ELSE /\ CanIssue
            /\ items' = [items EXCEPT ![id].loading = TRUE]
            /\ Issue(Request("update", id, editTitle, editDescription, FALSE))
            /\ ev' = NoReturn
    /\ last' = NoEvent
    /\ UNCHANGED <<store, nextId, user, todos, loading, form>>

----------------------------------------------------------------------------
(* The store answers a request *)

Answer(i, phase, data) ==
    reqs' = [reqs EXCEPT ![i].phase = phase, ![i].data = data]

\* select('*').order('created_at', { ascending: false })
ServeSelect(i) ==
    /\ reqs[i].op = "fetch"
    /\ Answer(i, "ok", OrderDesc(store))
    /\ UNCHANGED <<store, nextId>>

\* insert of addTodo's payload: title, description || null
ServeInsert(i) ==
    /\ reqs[i].op = "insert"
    /\ nextId <= MaxTasks
    /\ LET row == InsertedRow(reqs[i].title, OrNull(reqs[i].description))
       IN  /\ store' = store \cup {row}
           /\ reqs' = [reqs EXCEPT ![i].phase = "ok", ![i].data = <<row>>,
                                    ![i].pre = {old.id : old \in store}]
    /\ nextId' = nextId + 1

\* update of toggleTodo's payload
ServeToggle(i) ==
    /\ reqs[i].op = "toggle"
    /\ store' = StoreToggle(store, reqs[i].id, reqs[i].completed)
    /\ Answer(i, "ok", <<>>)
    /\ UNCHANGED nextId

\* update of updateTodo's payload: title, description || null
ServeUpdate(i) ==
    /\ reqs[i].op = "update"
    /\ store' = StoreUpdate(store, reqs[i].id, reqs[i].title,
                            OrNull(reqs[i].description))
    /\ Answer(i, "ok", <<>>)
    /\ UNCHANGED nextId

\* delete of deleteTodo
ServeDelete(i) ==
    /\ reqs[i].op = "delete"
    /\ store' = StoreDelete(store, reqs[i].id)
    /\ Answer(i, "ok", <<>>)
    /\ UNCHANGED nextId

\* the call comes back with `error` set; the table is untouched (and the
\* user stays, for signOut)
ServeError(i) ==
    /\ Answer(i, "err", <<>>)
    /\ UNCHANGED <<store, nextId>>

Serve(i) ==
    /\ reqs[i].phase = "sent"
    /\ \/ ServeSelect(i)
       \/ ServeInsert(i)
       \/ ServeToggle(i)
       \/ ServeUpdate(i)
       \/ ServeDelete(i)
       \/ ServeError(i)
    /\ Quiet
    /\ UNCHANGED <<issued, user, todos, loading, form, items>>

----------------------------------------------------------------------------
(* The continuation of a request: the rest of the TodoList operation, then *)
(* the rest of the TodoForm / TodoItem handler that awaited it             *)

\* setTodos on an unmounted TodoList does nothing
TodosAfter(r) == IF r.listLive THEN OpResult(r, todos) ELSE todos

\* fetchTodos: finally { setLoading(false) }
LoadingAfter(r) == IF r.op = "fetch" /\ r.listLive THEN FALSE ELSE loading

\* a handleSubmit without try / finally around an addTodo that rethrows
FormAfterStuckOnError(r) ==
    IF r.op = "insert" /\ r.listLive /\ r.phase = "ok" THEN FreshForm ELSE form

\* handleSubmit after its await: setTitle(''), setDescription(''),
\* finally { setLoading(false) }; addTodo never throws
FormAfter(r) == IF r.op = "insert" /\ r.listLive THEN FreshForm ELSE form

\* a handleSaveEdit that left edit mode only after a successful update
ItemsAfterKeepsEditingOnError(r, list) ==
    IF ~r.listLive THEN items
    ELSE [id \in Ids(list) |->
            IF r.op \in ItemOps /\ r.itemLive /\ id = r.id
            THEN [loading |-> FALSE,
                  isEditing |-> IF r.op = "update" /\ r.phase = "ok" THEN FALSE
                                ELSE ItemsFor(list)[id].isEditing]
            ELSE ItemsFor(list)[id]]

\* handleToggle / handleDelete / handleSaveEdit after their await:
\* (setIsEditing(false) for a save,) finally { setLoading(false) }
ItemsAfter(r, list) ==
    IF ~r.listLive THEN items
    ELSE [id \in Ids(list) |->
            IF r.op \in ItemOps /\ r.itemLive /\ id = r.id
            THEN [loading |-> FALSE,
                  isEditing |-> IF r.op = "update" THEN FALSE
                                ELSE ItemsFor(list)[id].isEditing]
            ELSE ItemsFor(list)[id]]

\* the requests still in flight after r resumed and `todos` became `list`
RestAfter(i, r, list) ==
    LET rest == Without(i)
        seen(q) == IF r.op = "toggle" /\ r.phase = "ok" /\ q.op = "toggle"
                   THEN q.over \cup {[id |-> r.id, completed |-> r.completed]}
                   ELSE q.over
    IN  [j \in DOMAIN rest |->
            [rest[j] EXCEPT
               !.over = seen(rest[j]),
               !.okOver = rest[j].okOver \/ r.phase = "ok",
               !.errOver = rest[j].errOver \/ r.phase = "err",
               !.itemLive = rest[j].itemLive
                            /\ (rest[j].op \in ItemOps => rest[j].id \in Ids(list))]]

Resume(i) ==
    LET r == reqs[i]
        list == TodosAfter(r)
    IN  /\ r.phase # "sent"
        /\ todos' = list
        /\ loading' = LoadingAfter(r)
        /\ form' = FormAfter(r)
        /\ items' = ItemsAfter(r, list)
        /\ reqs' = RestAfter(i, r, list)
        /\ last' = Event(r, todos, Toasts(r))
        /\ ev' = NoReturn
        /\ UNCHANGED <<issued, store, nextId, user>>

FetchTodosDone(i) == reqs[i].op = "fetch" /\ Resume(i)
AddTodoDone(i) == reqs[i].op = "insert" /\ Resume(i)
ToggleTodoDone(i) == reqs[i].op = "toggle" /\ Resume(i)
DeleteTodoDone(i) == reqs[i].op = "delete" /\ Resume(i)
UpdateTodoDone(i) == reqs[i].op = "update" /\ Resume(i)

\* handleSignOut after its await: the toast, unless signOut() threw
HandleSignOutDone(i) == reqs[i].op = "signOut" /\ Resume(i)

----------------------------------------------------------------------------

Next ==
    \/ SignIn
    \/ UserChanged
    \/ HandleSignOut
    \/ \E t \in TitleInputs, d \in DescInputs : HandleSubmit(t, d)
    \/ \E id \in DOMAIN items : HandleToggle(id)
    \/ \E id \in DOMAIN items : HandleDelete(id)
    \/ \E id \in DOMAIN items : StartEdit(id)
    \/ \E id \in DOMAIN items : HandleCancelEdit(id)
    \/ \E id \in DOMAIN items, t \in TitleInputs, d \in DescInputs :
          HandleSaveEdit(id, t, d)
    \/ \E i \in DOMAIN reqs : Serve(i)
    \/ \E i \in DOMAIN reqs : FetchTodosDone(i)
    \/ \E i \in DOMAIN reqs : AddTodoDone(i)
    \/ \E i \in DOMAIN reqs : ToggleTodoDone(i)
    \/ \E i \in DOMAIN reqs : DeleteTodoDone(i)
    \/ \E i \in DOMAIN reqs : UpdateTodoDone(i)
    \/ \E i \in DOMAIN reqs : AuthAnswer(i)
    \/ \E i \in DOMAIN reqs : HandleSignOutDone(i)

Spec == Init /\ [][Next]_vars

----------------------------------------------------------------------------
(* Properties *)

Writes == {"insert", "toggle", "update", "delete"}

CompletedOf(list, id) == list[Find(list, id)].completed

\* the list with every todo but `id` as it is, and `id` with completed = c
WithCompleted(list, id, c) ==
    [i \in DOMAIN list |->
        IF list[i].id = id THEN [list[i] EXCEPT !.completed = c] ELSE list[i]]

Removed(list, id) == SelectSeq(list, LAMBDA t : t.id # id)

OneToast(e, variant) == Len(e.toasts) = 1 /\ e.toasts[1].variant = variant

\* C1: two toggles on distinct todos that were in flight together and both
\* succeeded commute: when the second one resumes, the first one's patch
\* (in place just before) is still in place, and its own patch is applied.
C1_TogglesCommute ==
    (last.op = "toggle" /\ last.ok /\ last.live) =>
        \A o \in last.over :
            (/\ o.id # last.id
             /\ {o.id, last.id} \subseteq Ids(last.before)
             /\ CompletedOf(last.before, o.id) = o.completed)
            => /\ {o.id, last.id} \subseteq Ids(todos)
               /\ CompletedOf(todos, o.id) = o.completed
               /\ CompletedOf(todos, last.id) = last.completed

\* C2: when the remote call of create, toggle, update or delete fails, the
\* list after the continuation is the list before it, and one error toast
\* is raised.
C2_FailedWriteLeavesTodos ==
    (last.op \in Writes /\ ~last.ok) =>
        /\ todos = last.before
        /\ OneToast(last, Destructive)

C2_Witness ==
    /\ last.op = "delete" /\ ~last.ok /\ last.live
    /\ Len(todos) = 2
    /\ last.id \in Ids(todos)

\* C3: a successful toggle(id, c) with nothing else in flight sets
\* completed of that todo to c and leaves length, order, every other todo
\* and every other field as they were; a second such toggle with the
\* opposite value, issued right after the first, restores the list the
\* first one started from.
C3_ToggleFrame ==
    (last.op = "toggle" /\ last.ok /\ last.alone /\ last.live
        /\ last.id \in Ids(last.before)) =>
        /\ todos = WithCompleted(last.before, last.id, last.completed)
        /\ CompletedOf(todos, last.id) = last.completed
        /\ (/\ last.prev.op = "toggle" /\ last.prev.ok /\ last.prev.alone
            /\ last.prev.live /\ last.prev.id = last.id
            /\ last.prev.completed # last.completed)
           => todos = last.prev.before

C3_Witness ==
    /\ last.op = "toggle" /\ last.ok /\ last.alone /\ last.live
    /\ last.prev.op = "toggle" /\ last.prev.ok /\ last.prev.alone
    /\ last.prev.live /\ last.prev.id = last.id
    /\ last.prev.completed /\ ~last.completed
    /\ Len(todos) = 2
    /\ todos = last.prev.before

\* C4: a successful delete(id) removes the todo with that id from the list
\* and changes nothing else of it, whatever else was in flight.
C4_DeleteRemovesOnlyThat ==
    (last.op = "delete" /\ last.ok /\ last.live) =>
        todos = Removed(last.before, last.id)

\* C5: the list is always in descending order of created_at, and a
\* successful create puts the returned row at its head.
C5_OrderedByCreatedAtDesc ==
    /\ \A i, j \in DOMAIN todos :
          i < j => todos[i].created_at >= todos[j].created_at
    /\ (last.op = "insert" /\ last.ok /\ last.live) =>
          (todos # <<>> /\ todos[1] = last.data[1])

C5_Witness ==
    /\ last.op = "insert" /\ last.ok /\ last.live
    /\ Len(todos) = 2
    /\ todos[1].created_at > todos[2].created_at

\* C6: a successful create(title, description) followed by a successful
\* load shows exactly one todo that was not in the table before the
\* insert; it has that title, completed = false, and a null description
\* when the description given was empty.
C6_CreateThenLoad ==
    (/\ last.op = "fetch" /\ last.ok /\ last.alone /\ last.live
     /\ last.prev.op = "insert" /\ last.prev.ok /\ last.prev.alone
     /\ last.prev.live) =>
        LET new == {i \in DOMAIN todos : todos[i].id \notin last.prev.pre}
        IN  /\ Cardinality(new) = 1
            /\ \A i \in new :
                  /\ todos[i].title = last.prev.title
                  /\ todos[i].completed = FALSE
                  /\ (last.prev.description = <<>>
                        => todos[i].description = Null)
                  /\ (last.prev.description # <<>>
                        => todos[i].description = Some(last.prev.description))

C6_Witness ==
    /\ last.op = "fetch" /\ last.ok /\ last.alone /\ last.live
    /\ last.prev.op = "insert" /\ last.prev.ok /\ last.prev.alone
    /\ last.prev.live
    /\ last.prev.description = <<>>
    /\ Len(todos) = 2
    /\ todos[1].description = Null
    /\ todos[1].title = last.prev.title

\* C7: no todo of the list and no row of the table has the empty string as
\* its description: create and update turn it into null.
C7_NoEmptyDescription ==
    /\ \A i \in DOMAIN todos : todos[i].description # Some(<<>>)
    /\ \A row \in store : row.description # Some(<<>>)

\* no request and no row carries a title that trims to the empty string
C8_State ==
    /\ \A i \in DOMAIN reqs :
          reqs[i].op \in {"insert", "update"} => Trim(reqs[i].title) # <<>>
    /\ \A row \in store : Trim(row.title) # <<>>

\* C8: a title that is empty or only whitespace never reaches the table: no
\* request carries one, no row has one, and the step in which handleSubmit
\* or handleSaveEdit returns early changes neither the requests in flight,
\* nor the list, nor the table.
C8_BlankTitleNeverReachesStore ==
    /\ []C8_State
    /\ [][ev'.handler # "none" => UNCHANGED <<reqs, todos, store>>]_vars

C8_Witness ==
    /\ ev.handler = "handleSubmit"
    /\ ev.title = <<Space>>
    /\ todos # <<>>

\* C9: when the read of fetchTodos fails, loading becomes false, the list
\* keeps the value it had (empty on the first load) and the load-error
\* toast is raised; when it succeeds the list is replaced by the rows
\* fetched and loading becomes false.
C9_Load ==
    (last.op = "fetch" /\ last.live) =>
        /\ ~loading
        /\ last.ok => todos = last.data
        /\ ~last.ok =>
              /\ todos = last.before
              /\ last.wasLoading => todos = <<>>
              /\ last.toasts = <<[title |-> "Erro ao carregar tarefas",
                                 variant |-> Destructive]>>

C9_Witness ==
    /\ last.op = "fetch" /\ ~last.ok /\ last.live
    /\ ~last.wasLoading
    /\ todos # <<>>
    /\ ~loading

\* the effect of a successful write is in the list the continuation leaves
Applied(e) ==
    CASE e.op = "insert" -> todos # <<>> /\ todos[1] = e.data[1]
      [] e.op = "toggle" ->
            e.id \in Ids(todos) /\ CompletedOf(todos, e.id) = e.completed
      [] e.op = "update" ->
            e.id \in Ids(todos) /\ todos[Find(todos, e.id)].title = e.title
      [] e.op = "delete" -> e.id \notin Ids(todos)

\* C10 as stated: every continuation of load, create, toggle, update or
\* delete raises exactly one toast: a normal one on success, an error one
\* (and no change of the list) on failure.
C10_ExactlyOneToast ==
    (last.op \in Writes \cup {"fetch"}) =>
        /\ last.ok => OneToast(last, Normal)
        /\ ~last.ok => (OneToast(last, Destructive) /\ todos = last.before)

\* C10 as amended: every continuation of create, toggle, update or delete
\* raises exactly one toast, a normal one with the effect applied to the
\* list (of a mounted TodoList) on success, an error one with the list
\* unchanged on failure; the continuation of load raises one error toast
\* on failure and none on success.
C10_OneToastPerWrite ==
    /\ (last.op \in Writes) =>
          /\ last.ok => (OneToast(last, Normal) /\ (last.live => Applied(last)))
          /\ ~last.ok => (OneToast(last, Destructive) /\ todos = last.before)
    /\ (last.op = "fetch") =>
          /\ last.ok => last.toasts = <<>>
          /\ ~last.ok => (OneToast(last, Destructive) /\ todos = last.before)

C10_Witness ==
    /\ last.op = "fetch" /\ last.ok /\ last.live
    /\ last.toasts = <<>>
    /\ todos # <<>>

----------------------------------------------------------------------------
(* C11 .. C19 *)

\* no request of the mounted TodoList is in flight
Settled == Rendered /\ reqs = <<>>

\* C11: whenever nothing is in flight, `todos` and the store agree: every
\* todo shown is a row of the store with the same title, description and
\* completed flag.
C11_TodosAgreeWithStore ==
    Settled => \A i \in DOMAIN todos : todos[i] \in store

\* the effect of the write `q` is visible in `list`
Shows(q, list) ==
    CASE q.op = "toggle" ->
            q.id \in Ids(list) /\ CompletedOf(list, q.id) = q.completed
      [] q.op = "delete" -> q.id \notin Ids(list)
      [] q.op = "update" ->
            q.id \in Ids(list) /\ list[Find(list, q.id)].title = q.title
      [] q.op = "insert" -> q.phase = "ok" /\ q.data[1].id \in Ids(list)
      [] OTHER -> FALSE

\* C12: there is no optimistic mutation.  `todos` changes only in the
\* continuation of a request whose remote call succeeded (or is emptied when
\* TodoList unmounts); issuing a request, the store answering it and the
\* continuation of a failed call leave `todos` as it is.
C12_NoOptimisticMutation ==
    [][ /\ (todos' # todos) =>
              \/ last'.op \in Writes \cup {"fetch"} /\ last'.ok /\ last'.live
              \/ user /\ ~user'
        /\ (Len(reqs') > Len(reqs)) => todos' = todos
        /\ (\E i \in DOMAIN reqs : Serve(i)) => todos' = todos
      ]_vars

\* the store has applied a toggle whose continuation has not run yet, and
\* the list still shows the old flag
C12_Witness ==
    \E i \in DOMAIN reqs :
        /\ reqs[i].op = "toggle" /\ reqs[i].phase = "ok" /\ reqs[i].listLive
        /\ reqs[i].id \in Ids(todos)
        /\ ~Shows(reqs[i], todos)

\* the effect of the write `e` on the list `before` is the list `after`
EffectOn(e, before, after) ==
    CASE e.op = "insert" -> after = <<e.data[1]>> \o before
      [] e.op = "toggle" -> after = WithCompleted(before, e.id, e.completed)
      [] e.op = "delete" -> after = Removed(before, e.id)
      [] e.op = "update" ->
            /\ Len(after) = Len(before)
            /\ \A i \in DOMAIN before :
                  IF before[i].id = e.id
                  THEN /\ after[i].title = e.title
                       /\ after[i].id = before[i].id
                       /\ after[i].completed = before[i].completed
                       /\ after[i].created_at = before[i].created_at
                  ELSE after[i] = before[i]
      [] OTHER -> FALSE

\* C13: a failure does not touch what other operations did.  The
\* continuation of a failed call (load included) leaves `todos`, with every
\* effect already in it, exactly as it was; and a write that succeeds after
\* only failed continuations ran while it was in flight applies its effect
\* to the list as if those failed operations had never been issued.
C13_FailureLeavesOthersAlone ==
    /\ (last.op \in Writes \cup {"fetch"} /\ ~last.ok) => todos = last.before
    /\ (last.op \in Writes /\ last.ok /\ last.live
            /\ last.errOver /\ ~last.okOver) =>
          EffectOn(last, last.before, todos)

\* a write succeeded after another operation failed while it was in flight,
\* and its effect is in the list
C13_Witness ==
    /\ last.op \in Writes /\ last.ok /\ last.live
    /\ last.errOver /\ ~last.okOver
    /\ todos # last.before

\* C14: `loading` of a TodoList instance starts true (it is true whenever
\* no instance is mounted and at the mount), becomes false only
\* when the continuation of one of its loads runs (success or failure), and
\* once false stays false for as long as the instance is mounted, also when
\* the effect runs fetchTodos again for a changed user.
C14_LoadingOnlyFalls ==
    /\ [](~user => loading)
    /\ [][ /\ (~user /\ user') => loading'
           /\ (loading /\ ~loading') =>
                 (user /\ last'.op = "fetch" /\ last'.live)
           /\ (\E i \in DOMAIN reqs :
                 reqs[i].op = "fetch" /\ reqs[i].listLive /\ Resume(i))
                 => ~loading'
           /\ (~loading /\ user /\ user') => ~loading'
         ]_vars

\* the list is shown while a second load of the same instance is in flight
C14_Witness ==
    /\ Rendered
    /\ \E i \in DOMAIN reqs : reqs[i].op = "fetch" /\ reqs[i].listLive
    /\ last.op = "fetch" /\ ~last.ok

\* the step issued a request of kind `op`
Issues(op) ==
    /\ Len(reqs') = Len(reqs) + 1
    /\ reqs'[Len(reqs')].op = op
    /\ reqs'[Len(reqs')].phase = "sent"

\* C15: while no user is present nothing is shown and nothing is read: the
\* list is empty, no form or item is rendered, no request belongs to a
\* mounted TodoList, and no step issues a request; the step in which a user
\* appears issues a load; the list is rendered only for a present user.
C15_GatedByUser ==
    /\ [](~user => /\ todos = <<>>
                    /\ items = NoItems
                    /\ ~Rendered
                    /\ \A i \in DOMAIN reqs : ~reqs[i].listLive)
    /\ [][ /\ (~user /\ ~user') => Len(reqs') <= Len(reqs)
           /\ (~user /\ user') => Issues("fetch")
           /\ Issues("fetch") => user'
         ]_vars

\* the user signed out of a list that showed todos: the store still has
\* rows, the list is empty
C15_Witness ==
    /\ ~user
    /\ \E i \in DOMAIN reqs :
          reqs[i].op = "signOut" /\ reqs[i].phase = "ok" /\ reqs[i].snap # <<>>
    /\ store # {}
    /\ todos = <<>>

\* every request in flight is eventually answered, and every answered
\* request's continuation eventually runs (the event loop runs it)
FairSpec ==
    /\ Spec
    /\ \A i \in 1..MaxInFlight :
          /\ WF_vars(i \in DOMAIN reqs /\ Serve(i))
          /\ WF_vars(i \in DOMAIN reqs /\ Resume(i))

TaskIds == 1..MaxTasks

ItemPending(id) == id \in DOMAIN items /\ items[id].loading

\* a request of the mounted form / of the mounted item `id` is in flight
FormCall == \E i \in DOMAIN reqs : reqs[i].op = "insert" /\ reqs[i].listLive
ItemCall(id) ==
    \E i \in DOMAIN reqs :
        reqs[i].op \in ItemOps /\ reqs[i].id = id /\ reqs[i].itemLive

\* C16: no failure propagates.  When the continuation of a request runs,
\* failed or not, the `loading` flag of the form / item that issued it is
\* false again; a flag is true only while a call of that control is in
\* flight; and, every call being answered eventually, every flag that is
\* true eventually becomes false.
C16_PendingFlagsClear ==
    /\ [](/\ (last.op = "insert" /\ last.live) => ~form.loading
          /\ (last.op \in ItemOps /\ last.itemLive) => ~ItemPending(last.id)
          /\ form.loading => FormCall
          /\ \A id \in TaskIds : ItemPending(id) => ItemCall(id))
    /\ form.loading ~> ~form.loading
    /\ \A id \in TaskIds : ItemPending(id) ~> ~ItemPending(id)

\* a failed create has resumed and the form accepts the next submission
C16_Witness ==
    /\ last.op = "insert" /\ ~last.ok /\ last.live
    /\ Rendered /\ ~form.loading

\* C17: the ids of the todos in the list are pairwise distinct.
C17_DistinctIds ==
    \A i, j \in DOMAIN todos : todos[i].id = todos[j].id => i = j

\* a create resumed on a list whose snapshot is older than a load that
\* already showed the created row: the row still appears once
C17_Witness ==
    /\ last.op = "insert" /\ last.ok /\ last.live
    /\ last.data[1].id \in Ids(last.before)
    /\ Len(todos) >= 2

\* the requests in flight issued by the mounted item `id` / the mounted form
ItemCalls(id) ==
    {i \in DOMAIN reqs :
        reqs[i].op \in ItemOps /\ reqs[i].id = id /\ reqs[i].itemLive}
FormCalls == {i \in DOMAIN reqs : reqs[i].op = "insert" /\ reqs[i].listLive}

\* C18: a rendered item has at most one toggle, update or delete of its own
\* in flight, and the form at most one create: each control issues a
\* request only while its `loading` flag is false and holds it true until
\* the request's continuation has run.
C18_OneCallPerControl ==
    /\ Cardinality(FormCalls) <= 1
    /\ \A id \in DOMAIN items : Cardinality(ItemCalls(id)) <= 1
    /\ \A i \in DOMAIN reqs :
          /\ (reqs[i].op = "insert" /\ reqs[i].listLive) => form.loading
          /\ (reqs[i].op \in ItemOps /\ reqs[i].itemLive) =>
                ItemPending(reqs[i].id)

\* an item and the form each have a call in flight
C18_Witness ==
    /\ form.loading
    /\ \E id \in DOMAIN items : items[id].loading
    /\ Len(reqs) = 2

\* C19: a failed write looks like a successful one to the control that
\* issued it.  After the continuation of a failed create the form's title
\* and description are empty again; after the continuation of a failed
\* update the item is out of edit mode; `todos` is unchanged in both cases.
C19_FailedWriteResetsControl ==
    /\ (last.op = "insert" /\ ~last.ok /\ last.live) =>
          /\ form.title = <<>> /\ form.description = <<>>
          /\ todos = last.before
    /\ (last.op = "update" /\ ~last.ok /\ last.live /\ last.itemLive) =>
          /\ last.id \in DOMAIN items
          /\ ~items[last.id].isEditing
          /\ todos = last.before

\* a save with a new title failed: the item shows the old title, not in
\* edit mode
C19_Witness ==
    /\ last.op = "update" /\ ~last.ok /\ last.live /\ last.itemLive
    /\ todos[Find(todos, last.id)].title # last.title
    /\ ~items[last.id].isEditing

====
